---- MODULE Spec2Model ----
(***************************************************************************)
(* GpuList<T> and BatchedUniformBuffer<T> of bevy_vector_shapes            *)
(* (src/render/render_resource/gpu_list.rs, batched_uniform_buffer.rs).    *)
(*                                                                         *)
(* One GpuList instance is modelled.  Init is the state right after        *)
(* GpuList::new(device) for every device / element type of Setups; the     *)
(* actions are the public operations clear, push, flush and write_buffer;  *)
(* binding (&self) is an operator on the state.  Option values are         *)
(* sequences: None == << >>, Some(x) == <<x>>.                             *)
(***************************************************************************)
EXTENDS Integers, Sequences, FiniteSets

VARIABLES
    limits,                   \* device.limits(): the three fields the code reads
    T_min_size,               \* T::min_size().get() of the element type
    variant,                  \* GpuList enum tag: "Uniform" or "Storage"
    uniforms,                 \* BatchedUniformBuffer.uniforms: committed chunks
    temp,                     \* BatchedUniformBuffer.temp: MaxCapacityArray(vec, cap)
    current_offset,           \* BatchedUniformBuffer.current_offset (u32)
    dynamic_offset_alignment, \* BatchedUniformBuffer.dynamic_offset_alignment
    buffer,                   \* Storage.0: value held by the StorageBuffer
    vec,                      \* Storage.1: staging Vec<T>
    has_buffer,               \* the backing GPU buffer exists (binding() is Some)
    assert_failed,            \* debug_assert of MaxCapacityArray::write_into was false
    result,                   \* GpuListIndex returned by the last push
    lastOp,                   \* history: the last operation called
    cycle,                    \* history: "pushing" | "written" | "dirty"
    pushed,                   \* history: elements pushed since new / the last clear
    flushes,                  \* history: flush() executions since new / the last clear
    tokens,                   \* history: GpuListIndex of each push since new / the last clear
    ru                        \* the last call of round_up on its own: [v, a, r]

vars == <<limits, T_min_size, variant, uniforms, temp, current_offset,
          dynamic_offset_alignment, buffer, vec, has_buffer, assert_failed,
          result, lastOp, cycle, pushed, flushes, tokens, ru>>

\* ---------------------------------------------------------------- bounds
MaxPush == 5      \* pushes between two clears
MaxChunks == 2    \* explicit flush() is called only below this many chunks
MaxV == 12        \* round_up called on its own: v in 0..MaxV
MaxA == 6         \* round_up called on its own: a in 1..MaxA

Elems == {"a", "b"}

\* Devices and element types: limits as reported by the device, and the
\* minimum size of T.
StorageCounts == {0, 8}
BindingSizes == {16, 64, 65536, 2097152}
Alignments == {32, 256}
ElementSizes == {16, 64}

Setups ==
    [max_storage_buffers_per_shader_stage : StorageCounts,
     max_uniform_buffer_binding_size : BindingSizes,
     min_uniform_buffer_offset_alignment : Alignments,
     min_size : ElementSizes]

LimitsOf(s) ==
    [max_storage_buffers_per_shader_stage |-> s.max_storage_buffers_per_shader_stage,
     max_uniform_buffer_binding_size |-> s.max_uniform_buffer_binding_size,
     min_uniform_buffer_offset_alignment |-> s.min_uniform_buffer_offset_alignment]

\* ---------------------------------------------------------------- helpers
None == << >>
Some(x) == <<x>>

\* Largest value the model's offsets and lengths take is far below u32::MAX
\* (4294967295): at most MaxPush + MaxChunks + 1 chunks of at most 1 MiB
\* each, so the u32 casts and additions of the code never wrap here.
Min(a, b) == IF a < b THEN a ELSE b
Max(a, b) == IF a < b THEN b ELSE a

MAX_REASONABLE_UNIFORM_BUFFER_BINDING_SIZE == 1048576

\* Variant of round_up that truncates to the multiple of a below v.
round_up_Truncating(v, a) == (v \div a) * a

\* round_up(v, a)
round_up(v, a) == ((v + a - 1) \div a) * a

\* Variant of batch_size without the 1 MiB cap.
BatchedUniformBuffer_batch_size_NoCap(l, minSize) ==
    l.max_uniform_buffer_binding_size \div minSize

\* BatchedUniformBuffer::<T>::batch_size(limits)
BatchedUniformBuffer_batch_size(l, minSize) ==
    Min(l.max_uniform_buffer_binding_size,
        MAX_REASONABLE_UNIFORM_BUFFER_BINDING_SIZE) \div minSize

\* MaxCapacityArray::size(): METADATA.stride() * max(capacity, 1); the stride
\* of an array of T is the size of T.
MaxCapacityArray_size(arr, stride) == stride * Max(arr.cap, 1)

\* Variant of GpuList::batch_size that tests for the absence of storage
\* buffers.
GpuList_batch_size_Inverted(l, minSize) ==
    IF l.max_storage_buffers_per_shader_stage = 0
    THEN <<BatchedUniformBuffer_batch_size(l, minSize)>>
    ELSE << >>

\* GpuList::<T>::batch_size(device)
GpuList_batch_size(l, minSize) ==
    IF l.max_storage_buffers_per_shader_stage > 0
    THEN Some(BatchedUniformBuffer_batch_size(l, minSize))
    ELSE None

\* the branch taken by GpuList::new
GpuList_new_variant(l) ==
    IF l.max_storage_buffers_per_shader_stage > 0 THEN "Uniform" ELSE "Storage"

\* ---------------------------------------------------------------- Init
\* GpuList::new(device) -> BatchedUniformBuffer::new(&limits) or an empty
\* (StorageBuffer, Vec) pair.
Init ==
    \E s \in Setups :
        /\ limits = LimitsOf(s)
        /\ T_min_size = s.min_size
        /\ variant = GpuList_new_variant(LimitsOf(s))
        /\ uniforms = << >>
        /\ temp = IF GpuList_new_variant(LimitsOf(s)) = "Uniform"
                  THEN [vec |-> << >>,
                        cap |-> BatchedUniformBuffer_batch_size(LimitsOf(s), s.min_size)]
                  ELSE [vec |-> << >>, cap |-> 0]
        /\ current_offset = 0
        /\ dynamic_offset_alignment =
               IF GpuList_new_variant(LimitsOf(s)) = "Uniform"
               THEN s.min_uniform_buffer_offset_alignment ELSE 0
        /\ buffer = << >>
        /\ vec = << >>
        /\ has_buffer = FALSE
        /\ assert_failed = FALSE
        /\ result = [index |-> 0, dynamic_offset |-> None]
        /\ lastOp = "new"
        /\ cycle = "pushing"
        /\ pushed = << >>
        /\ flushes = 0
        /\ tokens = << >>
        /\ ru = [v |-> 0, a |-> 1, r |-> 0]

\* ---------------------------------------------------------------- flush
\* Variant of flush that advances current_offset by the unrounded chunk size.
FlushFrom_Unrounded(u, t, off) ==
    [uniforms |-> Append(u, [vec |-> t.vec, cap |-> t.cap, offset |-> off]),
     temp |-> [vec |-> << >>, cap |-> t.cap],
     current_offset |-> off + MaxCapacityArray_size(t, T_min_size),
     violated |-> Len(t.vec) > t.cap]

\* The state after BatchedUniformBuffer::flush in a state with the given
\* uniforms / temp / current_offset: <<uniforms', temp', current_offset',
\* assertion violated>>.  uniforms.push serialises the clone with
\* write_into, which is where the debug assertion is evaluated: a debug
\* build panics there, a release build carries on with the state below.
\* A committed chunk is the clone of temp together with the offset it is
\* committed at: current_offset before it is advanced, which is the dynamic
\* offset the tokens of its elements carry.
FlushFrom(u, t, off) ==
    [uniforms |-> Append(u, [vec |-> t.vec, cap |-> t.cap, offset |-> off]),
     temp |-> [vec |-> << >>, cap |-> t.cap],
     current_offset |->
         off + round_up(MaxCapacityArray_size(t, T_min_size),
                        dynamic_offset_alignment),
     violated |-> Len(t.vec) > t.cap]

ConstFields == UNCHANGED <<limits, T_min_size, variant, dynamic_offset_alignment, ru>>

\* ---------------------------------------------------------------- clear
\* Variant of clear that replaces the list by an empty Storage list.
Clear_ResetToStorage ==
    /\ variant' = "Storage"
    /\ uniforms' = << >>
    /\ current_offset' = 0
    /\ temp' = [temp EXCEPT !.vec = << >>]
    /\ vec' = << >>
    /\ lastOp' = "clear"
    /\ cycle' = "pushing"
    /\ pushed' = << >>
    /\ flushes' = 0
    /\ tokens' = << >>
    /\ UNCHANGED <<buffer, has_buffer, assert_failed, result>>
    /\ UNCHANGED <<limits, T_min_size, dynamic_offset_alignment, ru>>

\* Variant of clear that resets current_offset and temp but keeps the
\* committed chunks.
Clear_KeepChunks ==
    /\ IF variant = "Uniform"
       THEN /\ current_offset' = 0
            /\ temp' = [temp EXCEPT !.vec = << >>]
            /\ UNCHANGED <<uniforms, vec>>
       ELSE /\ vec' = << >>
            /\ UNCHANGED <<uniforms, current_offset, temp>>
    /\ lastOp' = "clear"
    /\ cycle' = "pushing"
    /\ pushed' = << >>
    /\ flushes' = 0
    /\ tokens' = << >>
    /\ UNCHANGED <<buffer, has_buffer, assert_failed, result>>
    /\ ConstFields

\* Variant of clear that forgets to reset current_offset.
Clear_KeepOffset ==
    /\ IF variant = "Uniform"
       THEN /\ uniforms' = << >>
            /\ temp' = [temp EXCEPT !.vec = << >>]
            /\ UNCHANGED <<current_offset, vec>>
       ELSE /\ vec' = << >>
            /\ UNCHANGED <<uniforms, current_offset, temp>>
    /\ lastOp' = "clear"
    /\ cycle' = "pushing"
    /\ pushed' = << >>
    /\ flushes' = 0
    /\ tokens' = << >>
    /\ UNCHANGED <<buffer, has_buffer, assert_failed, result>>
    /\ ConstFields

\* GpuList::clear: BatchedUniformBuffer::clear (uniforms.clear(),
\* current_offset = 0, temp.0.clear()) or vec.clear().
Clear ==
    /\ IF variant = "Uniform"
       THEN /\ uniforms' = << >>
            /\ current_offset' = 0
            /\ temp' = [temp EXCEPT !.vec = << >>]
            /\ UNCHANGED vec
       ELSE /\ vec' = << >>
            /\ UNCHANGED <<uniforms, current_offset, temp>>
    /\ lastOp' = "clear"
    /\ cycle' = "pushing"
    /\ pushed' = << >>
    /\ flushes' = 0
    /\ tokens' = << >>
    /\ UNCHANGED <<buffer, has_buffer, assert_failed, result>>
    /\ ConstFields

\* ---------------------------------------------------------------- push
\* Variant of push that flushes only once the chunk is longer than its
\* capacity.
BatchedUniformBuffer_push_OffByOne(component) ==
    LET appended == [temp EXCEPT !.vec = Append(temp.vec, component)]
        full == Len(appended.vec) > appended.cap
        f == FlushFrom(uniforms, appended, current_offset)
    IN  /\ result' = [index |-> Len(temp.vec),
                      dynamic_offset |-> <<current_offset>>]
        /\ IF full
           THEN /\ uniforms' = f.uniforms
                /\ temp' = f.temp
                /\ current_offset' = f.current_offset
                /\ assert_failed' = (assert_failed \/ f.violated)
                /\ flushes' = flushes + 1
           ELSE /\ temp' = appended
                /\ UNCHANGED <<uniforms, current_offset, assert_failed, flushes>>
        /\ UNCHANGED vec

\* Variant of push that builds the token after the flush decision.
BatchedUniformBuffer_push_TokenAfterFlush(component) ==
    LET appended == [temp EXCEPT !.vec = Append(temp.vec, component)]
        full == Len(appended.vec) = appended.cap
        f == FlushFrom(uniforms, appended, current_offset)
    IN  /\ result' = [index |-> Len(temp.vec),
                      dynamic_offset |->
                          <<IF full THEN f.current_offset ELSE current_offset>>]
        /\ IF full
           THEN /\ uniforms' = f.uniforms
                /\ temp' = f.temp
                /\ current_offset' = f.current_offset
                /\ assert_failed' = (assert_failed \/ f.violated)
                /\ flushes' = flushes + 1
           ELSE /\ temp' = appended
                /\ UNCHANGED <<uniforms, current_offset, assert_failed, flushes>>
        /\ UNCHANGED vec

\* BatchedUniformBuffer::push: the token is built first, then the element is
\* appended, then the chunk is flushed when its length equals its capacity.
BatchedUniformBuffer_push(component) ==
    LET appended == [temp EXCEPT !.vec = Append(temp.vec, component)]
        full == Len(appended.vec) = appended.cap
        f == FlushFrom(uniforms, appended, current_offset)
    IN  /\ result' = [index |-> Len(temp.vec),
                      dynamic_offset |-> Some(current_offset)]
        /\ IF full
           THEN /\ uniforms' = f.uniforms
                /\ temp' = f.temp
                /\ current_offset' = f.current_offset
                /\ assert_failed' = (assert_failed \/ f.violated)
                /\ flushes' = flushes + 1
           ELSE /\ temp' = appended
                /\ UNCHANGED <<uniforms, current_offset, assert_failed, flushes>>
        /\ UNCHANGED vec

\* GpuList::push, Storage arm.
Storage_push(value) ==
    /\ result' = [index |-> Len(vec), dynamic_offset |-> None]
    /\ vec' = Append(vec, value)
    /\ UNCHANGED <<uniforms, temp, current_offset, assert_failed, flushes>>

Push(value) ==
    /\ Len(pushed) < MaxPush
    /\ IF variant = "Uniform"
       THEN BatchedUniformBuffer_push(value)
       ELSE Storage_push(value)
    /\ lastOp' = "push"
    /\ cycle' = IF cycle = "pushing" THEN "pushing" ELSE "dirty"
    /\ pushed' = Append(pushed, value)
    /\ tokens' = Append(tokens, result')
    /\ UNCHANGED <<buffer, has_buffer>>
    /\ ConstFields

\* ---------------------------------------------------------------- flush
\* Variant of flush that does nothing on an empty in-progress chunk.
Flush_SkipEmpty ==
    /\ variant = "Uniform"
    /\ Len(uniforms) < MaxChunks
    /\ LET f == FlushFrom(uniforms, temp, current_offset)
       IN  IF temp.vec = << >>
           THEN UNCHANGED <<uniforms, temp, current_offset, assert_failed>>
           ELSE /\ uniforms' = f.uniforms
                /\ temp' = f.temp
                /\ current_offset' = f.current_offset
                /\ assert_failed' = (assert_failed \/ f.violated)
    /\ flushes' = flushes + 1
    /\ lastOp' = "flush"
    /\ cycle' = "dirty"
    /\ UNCHANGED <<buffer, vec, has_buffer, result, pushed, tokens>>
    /\ ConstFields

\* BatchedUniformBuffer::flush called by the owner of the buffer (the
\* method is public; GpuList::Uniform exposes the buffer).
Flush ==
    /\ variant = "Uniform"
    /\ Len(uniforms) < MaxChunks
    /\ LET f == FlushFrom(uniforms, temp, current_offset)
       IN  /\ uniforms' = f.uniforms
           /\ temp' = f.temp
           /\ current_offset' = f.current_offset
           /\ assert_failed' = (assert_failed \/ f.violated)
    /\ flushes' = flushes + 1
    /\ lastOp' = "flush"
    /\ cycle' = "dirty"
    /\ UNCHANGED <<buffer, vec, has_buffer, result, pushed, tokens>>
    /\ ConstFields

\* ---------------------------------------------------------------- write_buffer
\* What the underlying buffer's write_buffer does to the existence of the GPU
\* buffer.  DynamicUniformBuffer and StorageBuffer (super::) are not among
\* the sources; their documented contract is that binding() is none if
\* nothing has ever been written: the buffer exists once a write_buffer has
\* uploaded at least one element, and is never dropped afterwards.
UploadCreatesBuffer(nonEmpty) == has_buffer \/ nonEmpty

\* Variant of write_buffer that flushes whether or not temp is empty.
BatchedUniformBuffer_write_buffer_AlwaysFlush ==
    LET f == FlushFrom(uniforms, temp, current_offset)
    IN  /\ uniforms' = f.uniforms
        /\ temp' = f.temp
        /\ current_offset' = f.current_offset
        /\ assert_failed' = (assert_failed \/ f.violated)
        /\ flushes' = flushes + 1
        /\ has_buffer' = UploadCreatesBuffer(uniforms' # << >>)
        /\ UNCHANGED <<buffer, vec>>

\* BatchedUniformBuffer::write_buffer: flush a non-empty temp, then upload.
BatchedUniformBuffer_write_buffer ==
    LET f == FlushFrom(uniforms, temp, current_offset)
        doFlush == temp.vec # << >>
    IN  /\ IF doFlush
           THEN /\ uniforms' = f.uniforms
                /\ temp' = f.temp
                /\ current_offset' = f.current_offset
                /\ assert_failed' = (assert_failed \/ f.violated)
                /\ flushes' = flushes + 1
           ELSE UNCHANGED <<uniforms, temp, current_offset, assert_failed, flushes>>
        /\ has_buffer' = UploadCreatesBuffer(uniforms' # << >>)
        /\ UNCHANGED <<buffer, vec>>

\* Variant of the Storage arm that uploads a copy and keeps the staging Vec.
Storage_write_buffer_NoTake ==
    /\ buffer' = vec
    /\ vec' = vec
    /\ has_buffer' = UploadCreatesBuffer(vec # << >>)
    /\ UNCHANGED <<uniforms, temp, current_offset, assert_failed, flushes>>

\* GpuList::write_buffer, Storage arm: buffer.set(mem::take(vec)), upload.
Storage_write_buffer ==
    /\ buffer' = vec
    /\ vec' = << >>
    /\ has_buffer' = UploadCreatesBuffer(vec # << >>)
    /\ UNCHANGED <<uniforms, temp, current_offset, assert_failed, flushes>>

WriteBuffer ==
    /\ IF variant = "Uniform"
       THEN BatchedUniformBuffer_write_buffer
       ELSE Storage_write_buffer
    /\ lastOp' = "write_buffer"
    /\ cycle' = IF cycle = "pushing" THEN "written" ELSE "dirty"
    /\ UNCHANGED <<result, pushed, tokens>>
    /\ ConstFields

\* ---------------------------------------------------------------- binding
\* GpuList::binding / BatchedUniformBuffer::binding: delegates to the
\* underlying buffer; some resource exactly when the GPU buffer exists.
binding == IF has_buffer THEN Some("BindingResource") ELSE None

\* ---------------------------------------------------------------- binding_layout
\* Variant of binding_layout that tests for the absence of storage buffers.
GpuList_binding_layout_Inverted(slot, visibility, l, minSize) ==
    [binding |-> slot,
     visibility |-> visibility,
     ty |-> IF l.max_storage_buffers_per_shader_stage = 0
            THEN [ty |-> "Uniform",
                  has_dynamic_offset |-> TRUE,
                  min_binding_size |-> << >>]
            ELSE [ty |-> "Storage { read_only: true }",
                  has_dynamic_offset |-> FALSE,
                  min_binding_size |-> <<minSize>>],
     count |-> << >>]

\* GpuList::<T>::binding_layout(binding, visibility, device)
GpuList_binding_layout(slot, visibility, l, minSize) ==
    [binding |-> slot,
     visibility |-> visibility,
     ty |-> IF l.max_storage_buffers_per_shader_stage > 0
            THEN [ty |-> "Uniform",
                  has_dynamic_offset |-> TRUE,
                  min_binding_size |-> None]
            ELSE [ty |-> "Storage { read_only: true }",
                  has_dynamic_offset |-> FALSE,
                  min_binding_size |-> Some(minSize)],
     count |-> None]

\* ---------------------------------------------------------------- round_up
\* round_up called on its own, on an input with a > 0 and v >= 0.
RoundUpCall(v, a) ==
    /\ ru' = [v |-> v, a |-> a, r |-> round_up(v, a)]
    /\ UNCHANGED <<limits, T_min_size, variant, uniforms, temp, current_offset,
                   dynamic_offset_alignment, buffer, vec, has_buffer,
                   assert_failed, result, lastOp, cycle, pushed, flushes, tokens>>

NextRoundUp == \E v \in 0..MaxV, a \in 1..MaxA : RoundUpCall(v, a)

SpecRoundUp == Init /\ [][NextRoundUp]_vars

\* ---------------------------------------------------------------- Next
Next ==
    \/ Clear
    \/ \E value \in Elems : Push(value)
    \/ Flush
    \/ WriteBuffer

Spec == Init /\ [][Next]_vars

TypeOK ==
    /\ variant \in {"Uniform", "Storage"}
    /\ current_offset \in 0..2147483647
    /\ Len(pushed) <= MaxPush
    /\ cycle \in {"pushing", "written", "dirty"}

\* ================================================================ claims

\* C1: GpuList::new selects Storage when the device reports
\* max_storage_buffers_per_shader_stage > 0 and Uniform only when that count
\* is 0.
C1_StorageWhenAvailable ==
    /\ (limits.max_storage_buffers_per_shader_stage > 0 => variant = "Storage")
    /\ (variant = "Uniform" => limits.max_storage_buffers_per_shader_stage = 0)

\* C2: Uniform backend, capacity C >= 1: after new/clear, N pushes and then
\* write_buffer, there are ceil(N / C) committed chunks, each of C elements
\* except the last, which holds N - C * (ceil(N / C) - 1).
C2_ChunkCount ==
    (variant = "Uniform" /\ temp.cap >= 1 /\ cycle = "written") =>
        LET N == Len(pushed)
            C == temp.cap
            K == (N + C - 1) \div C
        IN  /\ Len(uniforms) = K
            /\ \A i \in 1..Len(uniforms) :
                   Len(uniforms[i].vec) = IF i < K THEN C ELSE N - C * (K - 1)

C2_Witness ==
    /\ variant = "Uniform"
    /\ cycle = "written"
    /\ temp.cap = 4
    /\ Len(pushed) = 5
    /\ Len(uniforms) = 2
    /\ Len(uniforms[1].vec) = 4
    /\ Len(uniforms[2].vec) = 1

\* The smallest multiple of a that is >= v.
SmallestMultipleAtLeast(v, a) == CHOOSE r \in v..(v + a - 1) : r % a = 0

\* C3: Uniform backend: every push returns dynamic_offset =
\* Some(k * round_up(chunk_gpu_size, alignment)), k the number of chunks
\* committed before that push, and the offset is a multiple of the alignment.
C3_PushOffset ==
    [][(variant = "Uniform" /\ lastOp' = "push") =>
           LET stride == SmallestMultipleAtLeast(T_min_size * Max(temp.cap, 1),
                                                 dynamic_offset_alignment)
           IN  /\ result'.dynamic_offset = <<Len(uniforms) * stride>>
               /\ result'.dynamic_offset[1] % dynamic_offset_alignment = 0]_vars

\* The push that fills the second chunk reports the second chunk's offset,
\* not the third's.
C3_Witness ==
    /\ variant = "Uniform"
    /\ lastOp = "push"
    /\ temp.cap = 1
    /\ T_min_size = 16
    /\ dynamic_offset_alignment = 256
    /\ Len(uniforms) = 2
    /\ temp.vec = << >>
    /\ result.dynamic_offset = <<256>>
    /\ current_offset = 512

\* C4: the in-progress chunk and every committed chunk hold at most
\* batch_size(limits) elements, and the debug assertion of write_into never
\* fails.
C4_LenWithinCapacity ==
    variant = "Uniform" =>
        /\ Len(temp.vec) <= temp.cap
        /\ \A i \in 1..Len(uniforms) : Len(uniforms[i].vec) <= uniforms[i].cap
        /\ ~assert_failed

\* C5: when batch_size(limits) is 0 the construction is rejected: there is no
\* Uniform buffer with zero-capacity chunks that has accepted a push.
C5_ZeroBatchRejected ==
    ~(/\ variant = "Uniform"
      /\ BatchedUniformBuffer_batch_size(limits, T_min_size) = 0
      /\ temp.cap = 0
      /\ lastOp = "push")

\* C6: Storage backend: push returns index = length of the staging Vec before
\* the push and no dynamic offset; write_buffer moves the staging Vec into the
\* StorageBuffer in push order and leaves it empty, so the next push gets
\* index 0.
C6_Storage ==
    [][variant = "Storage" =>
           /\ lastOp' = "push" =>
                  /\ result'.index = Len(vec)
                  /\ result'.dynamic_offset = << >>
                  /\ (lastOp = "write_buffer" => result'.index = 0)
           /\ lastOp' = "write_buffer" =>
                  /\ buffer' = vec
                  /\ vec' = << >>
                  /\ (cycle' = "written" => buffer' = pushed')]_vars

C6_Witness ==
    /\ variant = "Storage"
    /\ lastOp = "push"
    /\ buffer = <<"a", "b", "a">>
    /\ vec = <<"b">>
    /\ result = [index |-> 0, dynamic_offset |-> << >>]

\* C7: no operation changes the backend variant of the list.
C7_VariantStable == [][variant' = variant]_vars

\* Two write_buffer calls, each of which committed a partial chunk.
C7_Witness ==
    /\ variant = "Uniform"
    /\ lastOp = "write_buffer"
    /\ cycle = "dirty"
    /\ temp.cap = 4
    /\ flushes = 2
    /\ Len(pushed) = 2
    /\ Len(uniforms) = 2

C9_BatchSize ==
    variant = "Uniform" =>
        LET m == IF limits.max_uniform_buffer_binding_size < 1048576
                 THEN limits.max_uniform_buffer_binding_size ELSE 1048576
            C == temp.cap
        IN  /\ C * T_min_size <= m
            /\ m < (C + 1) * T_min_size
            /\ \A i \in 1..Len(uniforms) : uniforms[i].cap = C
            /\ (limits.max_uniform_buffer_binding_size = 65536 /\ T_min_size = 64)
                   => C = 1024

C9_Witness ==
    /\ variant = "Uniform"
    /\ limits.max_uniform_buffer_binding_size = 65536
    /\ T_min_size = 64
    /\ temp.cap = 1024
    /\ Len(uniforms) = 2
    /\ uniforms[2].cap = 1024

\* C10: GpuList::batch_size(device) is Some(chunk capacity) exactly when the
\* list built by GpuList::new(device) is Uniform, and None exactly when it is
\* Storage.
C10_BatchSizeMatchesVariant ==
    /\ (GpuList_batch_size(limits, T_min_size) # << >>) <=> (variant = "Uniform")
    /\ (GpuList_batch_size(limits, T_min_size) = << >>) <=> (variant = "Storage")
    /\ variant = "Uniform" => GpuList_batch_size(limits, T_min_size) = <<temp.cap>>

C10_Witness ==
    /\ variant = "Uniform"
    /\ GpuList_batch_size(limits, T_min_size) = <<4>>
    /\ temp.cap = 4
    /\ Len(uniforms) = 1
    /\ lastOp = "push"

\* C11: binding_layout describes a read-only storage buffer without dynamic
\* offset exactly when the list built by GpuList::new is Storage, and a
\* uniform buffer with dynamic offset exactly when it is Uniform; the token of
\* a push has Some dynamic_offset exactly when the layout has a dynamic offset.
C11_LayoutMatchesVariant ==
    LET layout == GpuList_binding_layout(0, "VERTEX", limits, T_min_size).ty
    IN  /\ (layout.ty = "Storage { read_only: true }" /\ ~layout.has_dynamic_offset)
               <=> (variant = "Storage")
        /\ (layout.ty = "Uniform" /\ layout.has_dynamic_offset)
               <=> (variant = "Uniform")
        /\ \A i \in 1..Len(tokens) :
               (tokens[i].dynamic_offset # << >>) <=> layout.has_dynamic_offset
        /\ lastOp = "push" =>
               ((result.dynamic_offset # << >>) <=> layout.has_dynamic_offset)

C11_Witness ==
    /\ variant = "Uniform"
    /\ lastOp = "push"
    /\ GpuList_binding_layout(0, "VERTEX", limits, T_min_size).ty.has_dynamic_offset
    /\ result.dynamic_offset = <<256>>
    /\ Len(tokens) = 2

\* C12 as stated: Uniform backend, capacity C >= 1, only pushes since
\* new/clear: C pushes perform exactly one flush and leave the in-progress
\* chunk empty; C + 1 pushes perform exactly one flush (during the C-th push)
\* and leave 1 element in progress.
C12_BoundaryAsStated ==
    (variant = "Uniform" /\ temp.cap >= 1 /\ cycle = "pushing") =>
        LET C == temp.cap
            N == Len(pushed)
        IN  /\ N < C => flushes = 0
            /\ N = C => (flushes = 1 /\ temp.vec = << >>)
            /\ N = C + 1 => (flushes = 1 /\ Len(temp.vec) = 1)

\* C12 amended: as stated for C >= 2; with C = 1 every push flushes, so the
\* 2 pushes perform two flushes and leave the in-progress chunk empty.
C12_Boundary ==
    (variant = "Uniform" /\ temp.cap >= 1 /\ cycle = "pushing") =>
        LET C == temp.cap
            N == Len(pushed)
        IN  /\ N < C => (flushes = 0 /\ Len(temp.vec) = N /\ uniforms = << >>)
            /\ N = C => (flushes = 1 /\ temp.vec = << >> /\ Len(uniforms) = 1)
            /\ (N = C + 1 /\ C >= 2) => (flushes = 1 /\ Len(temp.vec) = 1)
            /\ (N = C + 1 /\ C = 1) => (flushes = 2 /\ temp.vec = << >>)

C12_Witness ==
    /\ variant = "Uniform"
    /\ cycle = "pushing"
    /\ temp.cap = 4
    /\ Len(pushed) = 5
    /\ flushes = 1
    /\ Len(temp.vec) = 1
    /\ Len(uniforms[1].vec) = 4

\* C13: in every state of a BatchedUniformBuffer, current_offset is a multiple
\* of dynamic_offset_alignment (alignment > 0).
C13_OffsetAligned ==
    (variant = "Uniform" /\ dynamic_offset_alignment > 0) =>
        current_offset % dynamic_offset_alignment = 0

\* An explicit flush of a chunk of 16 bytes under an alignment of 32.
C13_Witness ==
    /\ variant = "Uniform"
    /\ lastOp = "flush"
    /\ dynamic_offset_alignment = 32
    /\ T_min_size = 16
    /\ temp.cap = 1
    /\ current_offset = 64
    /\ Len(uniforms) = 2

\* C14: clear leaves the committed chunks empty, current_offset = 0 and the
\* in-progress chunk empty, with capacity and alignment unchanged; the first
\* push after clear returns index 0 and offset 0.
C14_Clear ==
    [][variant = "Uniform" =>
           /\ lastOp' = "clear" =>
                  /\ uniforms' = << >>
                  /\ current_offset' = 0
                  /\ temp'.vec = << >>
                  /\ temp'.cap = temp.cap
                  /\ dynamic_offset_alignment' = dynamic_offset_alignment
           /\ (lastOp = "clear" /\ lastOp' = "push") =>
                  result' = [index |-> 0, dynamic_offset |-> <<0>>]]_vars

\* The first push after a clear that followed a frame which wrote elements.
C14_Witness ==
    /\ variant = "Uniform"
    /\ lastOp = "push"
    /\ has_buffer
    /\ Len(pushed) = 1
    /\ cycle = "pushing"
    /\ temp.cap = 4
    /\ temp.vec = <<"b">>
    /\ uniforms = << >>
    /\ current_offset = 0
    /\ result = [index |-> 0, dynamic_offset |-> <<0>>]

\* The elements of the committed chunks, in chunk order.
RECURSIVE Flatten(_)
Flatten(chunks) ==
    IF chunks = << >> THEN << >>
    ELSE Flatten(SubSeq(chunks, 1, Len(chunks) - 1)) \o chunks[Len(chunks)].vec

\* C15: write_buffer on the Uniform backend flushes the in-progress chunk iff
\* it is non-empty: afterwards it is empty, every element pushed since the
\* last clear is in a committed chunk, the chunks are in strictly increasing
\* offset order; with an empty in-progress chunk it adds no chunk and leaves
\* current_offset unchanged.
C15_WriteBuffer ==
    [][(variant = "Uniform" /\ lastOp' = "write_buffer") =>
           /\ temp'.vec = << >>
           /\ temp.vec # << >> =>
                  /\ Len(uniforms') = Len(uniforms) + 1
                  /\ SubSeq(uniforms', 1, Len(uniforms)) = uniforms
                  /\ uniforms'[Len(uniforms')].vec = temp.vec
                  /\ flushes' = flushes + 1
           /\ temp.vec = << >> =>
                  /\ uniforms' = uniforms
                  /\ current_offset' = current_offset
                  /\ flushes' = flushes
           /\ Flatten(uniforms') = pushed'
           /\ \A i \in 1..(Len(uniforms') - 1) :
                  uniforms'[i].offset < uniforms'[i + 1].offset]_vars

\* A write_buffer issued with an empty in-progress chunk (for instance a
\* second consecutive write_buffer), which added nothing to the two chunks.
C15_Witness ==
    /\ variant = "Uniform"
    /\ lastOp = "write_buffer"
    /\ cycle = "dirty"
    /\ temp.cap = 4
    /\ Len(pushed) = 5
    /\ flushes = 2
    /\ Len(uniforms) = 2
    /\ uniforms[2].offset = 256
    /\ current_offset = 512
    /\ temp.vec = << >>

\* C16: flush() on an empty in-progress chunk appends one empty chunk and
\* advances current_offset by round_up(chunk_gpu_size, alignment).
C16_FlushEmpty ==
    [][(variant = "Uniform" /\ lastOp' = "flush" /\ temp.vec = << >>) =>
           LET stride == SmallestMultipleAtLeast(T_min_size * Max(temp.cap, 1),
                                                 dynamic_offset_alignment)
           IN  /\ Len(uniforms') = Len(uniforms) + 1
               /\ SubSeq(uniforms', 1, Len(uniforms)) = uniforms
               /\ uniforms'[Len(uniforms')].vec = << >>
               /\ current_offset' = current_offset + stride
               /\ current_offset' > current_offset]_vars

C16_Witness ==
    /\ variant = "Uniform"
    /\ lastOp = "flush"
    /\ pushed = << >>
    /\ temp.cap = 4
    /\ T_min_size = 16
    /\ dynamic_offset_alignment = 256
    /\ Len(uniforms) = 1
    /\ uniforms[1].vec = << >>
    /\ current_offset = 256

\* C17: for a > 0 and v >= 0, r = round_up(v, a) satisfies r >= v, r is a
\* multiple of a, and r - v < a.
C17_RoundUp ==
    /\ ru.r >= ru.v
    /\ ru.r % ru.a = 0
    /\ ru.r - ru.v < ru.a

C17_Witness == ru = [v |-> 9, a |-> 4, r |-> 12]

\* C18: Uniform backend, capacity C >= 1, one clear -> push* -> write_buffer
\* cycle: the i-th push (0-based) returns (i mod C, floor(i / C) * stride);
\* the index is below C; no two pushes get the same pair; after write_buffer
\* the committed chunk at that offset holds the pushed element at that index.
C18_Tokens ==
    (variant = "Uniform" /\ temp.cap >= 1 /\ cycle \in {"pushing", "written"}) =>
        LET C == temp.cap
            stride == SmallestMultipleAtLeast(T_min_size * C,
                                              dynamic_offset_alignment)
        IN  /\ Len(tokens) = Len(pushed)
            /\ \A i \in 1..Len(tokens) :
                   /\ tokens[i] = [index |-> (i - 1) % C,
                                   dynamic_offset |-> <<((i - 1) \div C) * stride>>]
                   /\ tokens[i].index < C
            /\ \A i, j \in 1..Len(tokens) : tokens[i] = tokens[j] => i = j
            /\ cycle = "written" =>
                   \A i \in 1..Len(tokens) :
                       /\ Cardinality({k \in 1..Len(uniforms) :
                              uniforms[k].offset = tokens[i].dynamic_offset[1]}) = 1
                       /\ \A k \in 1..Len(uniforms) :
                              uniforms[k].offset = tokens[i].dynamic_offset[1] =>
                                  /\ tokens[i].index + 1 <= Len(uniforms[k].vec)
                                  /\ uniforms[k].vec[tokens[i].index + 1] = pushed[i]

C18_Witness ==
    /\ variant = "Uniform"
    /\ cycle = "written"
    /\ temp.cap = 4
    /\ dynamic_offset_alignment = 256
    /\ pushed = <<"a", "b", "b", "a", "b">>
    /\ tokens[4] = [index |-> 3, dynamic_offset |-> <<0>>]
    /\ tokens[5] = [index |-> 0, dynamic_offset |-> <<256>>]
    /\ uniforms[2].offset = 256
    /\ uniforms[2].vec = <<"b">>

====
